---------------------------- MODULE Spec2Model ----------------------------
(***************************************************************************)
(* AquiferPulse: the index pipeline (scripts/compute_asi.py) and the query *)
(* layer (app/main.py) as one state machine over the files they share.     *)
(*                                                                         *)
(* Conventions of the model                                                *)
(*   - a float that may be NaN is a sequence: <<>> is NaN/None, <<v>> is   *)
(*     the value v.  Standard scores are fixed-point numbers in units of   *)
(*     10^-ND (thousandths); the composite index is kept as the exact      *)
(*     fraction <<num, den>> of the code's np.divide(num, den), with num   *)
(*     in units of 10^-(ND+1) and den in tenths, so asi = num/den          *)
(*     thousandths.                                                        *)
(*   - a text (a date string, a query parameter) is a sequence of          *)
(*     one-character strings.                                              *)
(*   - a timestamp is <<year, month>> (always a month start) or <<>> (NaT).*)
(*   - basin ids are single-digit numerals, so that the order of str(id)   *)
(*     is the order of the numbers.                                        *)
(***************************************************************************)
EXTENDS Integers, Sequences, FiniteSets, TLC

VARIABLES
    sources,    \* data/interim: grace.csv, era5.csv, imerg.csv
    table,      \* data/processed/asi_table.csv
    latest,     \* data/processed/asi_latest.geojson
    pc,         \* position of the pipeline run (compute_asi.main)
    df_out,     \* the pipeline's in-memory output frame
    resp        \* the response of the last query served

vars == <<sources, table, latest, pc, df_out, resp>>

----------------------------------------------------------------------------
(* Bounds of the model *)

MaxRows == 2        \* rows per source file
MaxLimit == 2       \* largest limit parameter of a ranking query

----------------------------------------------------------------------------
(* Program constants *)

\* W_TWSA, W_SM, W_RAIN = 0.4, 0.4, 0.2 in tenths
W_TWSA == 4
W_SM == 4
W_RAIN == 2
\* ALERT_T, WATCH_T = -1.0, -0.5 in thousandths
ALERT_T == -1000
WATCH_T == -500
\* _r(x, nd=3): digits kept by the rounding of served numbers
ND == 3

Scale == 10 ^ ND

----------------------------------------------------------------------------
(* Generic helpers *)

NaN == <<>>
IsNa(x) == x = <<>>
NotNa(x) == x # <<>>

Min(a, b) == IF a <= b THEN a ELSE b
Max(a, b) == IF a >= b THEN a ELSE b
Abs(a) == IF a < 0 THEN -a ELSE a

RECURSIVE SumSeq(_)
SumSeq(s) == IF s = <<>> THEN 0 ELSE Head(s) + SumSeq(Tail(s))

RECURSIVE SqrtBetween(_, _, _)
\* the largest r in lo..hi with r*r <= n (bisection)
SqrtBetween(n, lo, hi) ==
    IF lo >= hi THEN lo
    ELSE LET mid == (lo + hi + 1) \div 2
         IN  IF mid * mid <= n THEN SqrtBetween(n, mid, hi)
             ELSE SqrtBetween(n, lo, mid - 1)

\* floor of the square root; 46340 is the largest root of a 32-bit integer
ISqrt(n) == SqrtBetween(n, 0, Min(n, 46340))

\* all subsequences of s with at most n elements, order kept
RECURSIVE SubSeqs(_, _)
SubSeqs(s, n) ==
    IF s = <<>> \/ n = 0 THEN { <<>> }
    ELSE SubSeqs(Tail(s), n)
         \cup { <<Head(s)>> \o t : t \in SubSeqs(Tail(s), n - 1) }

----------------------------------------------------------------------------
(* Texts *)

Digits == <<"0", "1", "2", "3", "4", "5", "6", "7", "8", "9">>
DigitSet == { Digits[i] : i \in 1..10 }
IsDigit(c) == c \in DigitSet
DigitVal(c) == (CHOOSE i \in 1..10 : Digits[i] = c) - 1

DigitChar(n) == Digits[(n % 10) + 1]
Fmt2(n) == << DigitChar(n \div 10), DigitChar(n) >>
Fmt4(n) == << DigitChar(n \div 1000), DigitChar(n \div 100) >> \o Fmt2(n)

\* strftime("%Y-%m-%d")
FmtDate(y, m, d) == Fmt4(y) \o <<"-">> \o Fmt2(m) \o <<"-">> \o Fmt2(d)

\* Series.dt.strftime("%Y-%m-%d") of a month start; NaT gives a missing cell
Strftime(ts) == IF IsNa(ts) THEN <<>> ELSE FmtDate(ts[1], ts[2], 1)

\* the number a run of digits writes
RECURSIVE NumVal(_)
NumVal(s) == IF s = <<>> THEN 0 ELSE 10 * NumVal(SubSeq(s, 1, Len(s) - 1)) + DigitVal(s[Len(s)])

\* pd.to_datetime of a date cell of the table: <<>> (NaT) for a missing one
ToDatetime(text) ==
    IF text = <<>> THEN <<>>
    ELSE << NumVal(SubSeq(text, 1, 4)), NumVal(SubSeq(text, 6, 7)) >>

\* Python's s[:n]
Prefix(s, n) == SubSeq(s, 1, Min(n, Len(s)))


----------------------------------------------------------------------------
(* Source files.  A source row is [basin_id, date, val]; its date cell is  *)
(* a calendar date or a text that pandas cannot parse.                     *)

SourceNames == {"grace", "era5", "imerg"}

DateCell(m, d) == [ok |-> TRUE, y |-> 2021, m |-> m, d |-> d]
BadDate == [ok |-> FALSE, y |-> 0, m |-> 0, d |-> 0]
Obs(b, date, v) == [basin_id |-> b, date |-> date, val |-> v]

\* _read_csv: a missing file reads as an empty frame
ReadCsv(f) == IF f.exists THEN f.rows ELSE <<>>

\* _to_month: to_datetime(errors="coerce"), then the start of the month
ToMonth(cell) == IF cell.ok THEN <<cell.y, cell.m>> ELSE NaN

----------------------------------------------------------------------------
(* Frames.  A frame row carries every value column; a column the frame     *)
(* does not have is NaN.                                                   *)

FrameRow(b, ts, twsa, sm, rn) ==
    [basin_id |-> b, date |-> ts, twsa |-> twsa, sm |-> sm, rn |-> rn]

RECURSIVE MapRows(_, _)
\* one frame row per source row, the value in column col
MapRows(rows, col) ==
    IF rows = <<>> THEN <<>>
    ELSE LET r == Head(rows)
             v == <<r.val>>
         IN  << FrameRow(r.basin_id, ToMonth(r.date),
                         IF col = "twsa" THEN v ELSE NaN,
                         IF col = "sm" THEN v ELSE NaN,
                         IF col = "rn" THEN v ELSE NaN) >>
             \o MapRows(Tail(rows), col)

\* rain_col: "rain" wins over "rain_def"; <<>> is None
RainCol(f) ==
    IF ReadCsv(f) = <<>> THEN <<>>
    ELSE IF "rain" \in f.cols THEN <<"rain">>
    ELSE IF "rain_def" \in f.cols THEN <<"rain_def">>
    ELSE <<>>

\* frames: the usable sources, in the order grace, era5, imerg
Frames(src) ==
    (IF ReadCsv(src.grace) # <<>> /\ "twsa" \in src.grace.cols
       THEN << [cols |-> {"twsa"}, rows |-> MapRows(ReadCsv(src.grace), "twsa")] >>
       ELSE <<>>)
    \o (IF ReadCsv(src.era5) # <<>> /\ "sm" \in src.era5.cols
          THEN << [cols |-> {"sm"}, rows |-> MapRows(ReadCsv(src.era5), "sm")] >>
          ELSE <<>>)
    \o (IF RainCol(src.imerg) # <<>>
          THEN << [cols |-> {"rn"}, rows |-> MapRows(ReadCsv(src.imerg), "rn")] >>
          ELSE <<>>)

SameKey(a, b) == a.basin_id = b.basin_id /\ a.date = b.date

\* a matched pair: the right frame's columns from r, the rest from l
Combine(l, r, rcols) ==
    FrameRow(l.basin_id, l.date,
             IF "twsa" \in rcols THEN r.twsa ELSE l.twsa,
             IF "sm" \in rcols THEN r.sm ELSE l.sm,
             IF "rn" \in rcols THEN r.rn ELSE l.rn)

RECURSIVE LeftJoin(_, _, _)
\* each left row with every right row of its key, or alone
LeftJoin(L, R, rcols) ==
    IF L = <<>> THEN <<>>
    ELSE LET l == Head(L)
             m == SelectSeq(R, LAMBDA r : SameKey(l, r))
         IN  (IF m = <<>> THEN <<l>>
              ELSE [j \in 1..Len(m) |-> Combine(l, m[j], rcols)])
             \o LeftJoin(Tail(L), R, rcols)

\* pd.merge(df, d, on=["basin_id","date"], how="outer"); NaT keys match
\* each other, a key held by several rows of both sides gives their product
Merge(L, R) ==
    [cols |-> L.cols \cup R.cols,
     rows |-> LeftJoin(L.rows, R.rows, R.cols)
              \o SelectSeq(R.rows,
                    LAMBDA r : \A i \in 1..Len(L.rows) : ~SameKey(L.rows[i], r))]

RECURSIVE MergeAll(_, _)
MergeAll(acc, fs) ==
    IF fs = <<>> THEN acc ELSE MergeAll(Merge(acc, Head(fs)), Tail(fs))

----------------------------------------------------------------------------
(* Standard scores *)

Cell(r, col) == IF col = "twsa" THEN r.twsa ELSE IF col = "sm" THEN r.sm ELSE r.rn

\* the non-missing values of column col in the rows of basin b
GroupVals(rows, b, col) ==
    LET g == SelectSeq(rows, LAMBDA r : r.basin_id = b /\ NotNa(Cell(r, col)))
    IN  [i \in 1..Len(g) |-> Cell(g[i], col)[1]]

\* z of _z_by_basin: (x - mean) / std(ddof=0) over the group, NaN unless
\* sd > 0.  With n values of sum S and sum of squares Q, n*sd = sqrt(n*Q - S*S)
\* and z = (n*x - S) / sqrt(n*Q - S*S), here in units of 1/Scale.
ZOf(x, vals) ==
    LET n == Len(vals)
        S == SumSeq(vals)
        Q == SumSeq([i \in 1..n |-> vals[i] * vals[i]])
        D == n * Q - S * S
        k == n * x[1] - S
    IN  IF IsNa(x) \/ ~(D > 0) THEN NaN
        ELSE << (IF k < 0 THEN -1 ELSE 1) * ISqrt((Scale * Scale * k * k) \div D) >>

\* _z_by_basin(df, col), for one row
ZByBasin(rows, r, col) == ZOf(Cell(r, col), GroupVals(rows, r.basin_id, col))

Neg(x) == IF IsNa(x) THEN NaN ELSE << -x[1] >>

----------------------------------------------------------------------------
(* Composite index and class *)

Fill0(x) == IF IsNa(x) THEN 0 ELSE x[1]
Mask(x) == IF IsNa(x) THEN 0 ELSE 1

\* a variant of Composite that divides by the sum of all three weights,
\* whichever components are present
CompositeAllWeights(twsa_z, sm_z, rain_z) ==
    LET num == Fill0(twsa_z) * W_TWSA + Fill0(sm_z) * W_SM + Fill0(rain_z) * W_RAIN
        any == Mask(twsa_z) + Mask(sm_z) + Mask(rain_z)
    IN  IF any > 0 THEN <<num, W_TWSA + W_SM + W_RAIN>> ELSE NaN

\* num, den and np.divide(num, den, where=den>0) over the three components
Composite(twsa_z, sm_z, rain_z) ==
    LET num == Fill0(twsa_z) * W_TWSA + Fill0(sm_z) * W_SM + Fill0(rain_z) * W_RAIN
        den == Mask(twsa_z) * W_TWSA + Mask(sm_z) * W_SM + Mask(rain_z) * W_RAIN
    IN  IF den > 0 THEN <<num, den>> ELSE NaN

\* asi <= t, for asi = num/den thousandths
AsiLeq(asi, t) == asi[1] <= t * asi[2]

\* a variant of _classify whose thresholds are exclusive
ClassifyExclusive(asi) ==
    IF IsNa(asi) THEN "no-data"
    ELSE IF asi[1] < ALERT_T * asi[2] THEN "alert"
    ELSE IF asi[1] < WATCH_T * asi[2] THEN "watch"
    ELSE "normal"

\* _classify
Classify(asi) ==
    IF IsNa(asi) THEN "no-data"
    ELSE IF AsiLeq(asi, ALERT_T) THEN "alert"
    ELSE IF AsiLeq(asi, WATCH_T) THEN "watch"
    ELSE "normal"

\* the score columns of one merged row: lines 79-108
Scored(rows, r, rain_col) ==
    LET tz == ZByBasin(rows, r, "twsa")
        sz == ZByBasin(rows, r, "sm")
        z  == ZByBasin(rows, r, "rn")
        rz == IF rain_col = <<"rain">> THEN z
              ELSE IF rain_col = <<"rain_def">> THEN Neg(z) ELSE NaN
        dz == IF rain_col = <<"rain">> THEN Neg(z)
              ELSE IF rain_col = <<"rain_def">> THEN z ELSE NaN
        asi == Composite(tz, sz, rz)
    IN  [basin_id |-> r.basin_id, date |-> r.date,
         twsa |-> r.twsa, sm |-> r.sm,
         rain |-> IF rain_col = <<"rain">> THEN r.rn ELSE NaN,
         rain_def |-> IF rain_col = <<"rain_def">> THEN r.rn ELSE NaN,
         twsa_z |-> tz, sm_z |-> sz, rain_z |-> rz, rain_def_z |-> dz,
         asi |-> asi, class |-> Classify(asi)]

----------------------------------------------------------------------------
(* Output table *)

\* order of sort_values(["basin_id","date"]): NaT last
KeyLeq(a, b) ==
    \/ a.basin_id < b.basin_id
    \/ /\ a.basin_id = b.basin_id
       /\ \/ IsNa(b.date)
          \/ /\ NotNa(a.date)
             /\ \/ a.date[1] < b.date[1]
                \/ a.date[1] = b.date[1] /\ a.date[2] <= b.date[2]

RECURSIVE InsertRow(_, _)
\* r after the last row that is not greater: the sort is stable
InsertRow(sorted, r) ==
    IF sorted = <<>> THEN <<r>>
    ELSE LET last == sorted[Len(sorted)]
         IN  IF KeyLeq(last, r) THEN Append(sorted, r)
             ELSE Append(InsertRow(SubSeq(sorted, 1, Len(sorted) - 1), r), last)

RECURSIVE SortRows(_, _)
SortRows(acc, rows) ==
    IF rows = <<>> THEN acc ELSE SortRows(InsertRow(acc, Head(rows)), Tail(rows))

\* df_out: the scored rows, sorted, the date as "%Y-%m-%d" text
DfOut(src) ==
    LET fs == Frames(src)
        df == MergeAll(Head(fs), Tail(fs)).rows
        rc == RainCol(src.imerg)
        scored == [i \in 1..Len(df) |-> Scored(df, df[i], rc)]
        sorted == SortRows(<<>>, scored)
    IN  [i \in 1..Len(sorted) |-> [sorted[i] EXCEPT !.date = Strftime(sorted[i].date)]]


----------------------------------------------------------------------------
(* Latest month with coverage, and the latest collection *)

\* data/static/basins.geojson: the basin_id of each feature, in file order
Basins == <<1, 2, 3>>

TsLess(a, b) == a[1] < b[1] \/ (a[1] = b[1] /\ a[2] < b[2])
MaxTs(S) == CHOOSE t \in S : \A u \in S : ~TsLess(t, u)

\* a variant of latest_dt that takes the latest month of the table whether
\* or not it has a score
LatestDtAnyMonth(rows) ==
    LET all == { ToDatetime(rows[i].date) : i \in { j \in 1..Len(rows) : rows[j].date # <<>> } }
    IN  IF all # {} THEN MaxTs(all) ELSE NaN

\* latest_dt: lines 122-125; the groupby drops the NaT key, max() skips NaT
LatestDt(rows) ==
    LET dated == { i \in 1..Len(rows) : rows[i].date # <<>> }
        cov == { ToDatetime(rows[i].date) : i \in { j \in dated : NotNa(rows[j].asi) } }
        all == { ToDatetime(rows[i].date) : i \in dated }
    IN  IF cov # {} THEN MaxTs(cov)
        ELSE IF all # {} THEN MaxTs(all) ELSE NaN

\* round(float(x), 3) of a fraction num/den of thousandths: to the nearest,
\* a tie to the even one
RoundDiv(num, den) ==
    LET q == num \div den
        r == num - q * den
    IN  IF 2 * r < den THEN q
        ELSE IF 2 * r > den THEN q + 1
        ELSE IF q % 2 = 0 THEN q ELSE q + 1

\* _r of an asi cell
RoundAsi(asi) == IF IsNa(asi) THEN NaN ELSE << RoundDiv(asi[1], asi[2]) >>

\* {str(r["basin_id"]): r for r in rows}: the last row of a basin wins
ById(rows, b) ==
    LET hits == SelectSeq(rows, LAMBDA r : r.basin_id = b)
    IN  IF hits = <<>> THEN <<>> ELSE << hits[Len(hits)] >>

\* the properties written on one feature; standard scores are already
\* numbers of ND digits, which _r keeps
Feature(b, found, date) ==
    IF found # <<>>
      THEN [basin_id |-> b, date |-> date,
            twsa_z |-> found[1].twsa_z, sm_z |-> found[1].sm_z,
            rain_z |-> found[1].rain_z, rain_def_z |-> found[1].rain_def_z,
            asi |-> RoundAsi(found[1].asi), class |-> found[1].class]
      ELSE [basin_id |-> b, date |-> date,
            twsa_z |-> NaN, sm_z |-> NaN, rain_z |-> NaN, rain_def_z |-> NaN,
            asi |-> NaN, class |-> "no-data"]

\* the collection main() writes to asi_latest.geojson: lines 121-147
LatestGj(rows) ==
    LET latest_dt == LatestDt(rows)
        lrows == SelectSeq(rows, LAMBDA r : NotNa(latest_dt) /\ r.date # <<>>
                                            /\ ToDatetime(r.date) = latest_dt)
    IN  [i \in 1..Len(Basins) |->
            LET found == ById(lrows, Basins[i])
            IN  Feature(Basins[i], found,
                        IF found # <<>> THEN found[1].date ELSE Strftime(latest_dt))]

----------------------------------------------------------------------------
(* Query layer: app/main.py *)

NoResp == [op |-> "none", arg |-> <<>>, status |-> 0, body |-> <<>>]
Reply(op, arg, status, body) == [op |-> op, arg |-> arg, status |-> status, body |-> body]

\* lengths of the alternatives of %m, 1[0-2]|0[1-9]|[1-9], that match at p
MonthAlts(s, p) ==
    LET c(i) == IF p + i <= Len(s) THEN s[p + i] ELSE ""
    IN  (IF c(0) = "1" /\ c(1) \in {"0", "1", "2"} THEN <<2>> ELSE <<>>)
        \o (IF c(0) = "0" /\ IsDigit(c(1)) /\ c(1) # "0" THEN <<2>> ELSE <<>>)
        \o (IF IsDigit(c(0)) /\ c(0) # "0" THEN <<1>> ELSE <<>>)

\* lengths of the alternatives of %d, 3[0-1]|[1-2]\d|0[1-9]|[1-9]| [1-9]
DayAlts(s, p) ==
    LET c(i) == IF p + i <= Len(s) THEN s[p + i] ELSE ""
    IN  (IF c(0) = "3" /\ c(1) \in {"0", "1"} THEN <<2>> ELSE <<>>)
        \o (IF c(0) \in {"1", "2"} /\ IsDigit(c(1)) THEN <<2>> ELSE <<>>)
        \o (IF c(0) = "0" /\ IsDigit(c(1)) /\ c(1) # "0" THEN <<2>> ELSE <<>>)
        \o (IF IsDigit(c(0)) /\ c(0) # "0" THEN <<1>> ELSE <<>>)
        \o (IF c(0) = " " /\ IsDigit(c(1)) /\ c(1) # "0" THEN <<2>> ELSE <<>>)

DaysIn(y, m) ==
    IF m = 2 THEN (IF y % 4 = 0 /\ (y % 100 # 0 \/ y % 400 = 0) THEN 29 ELSE 28)
    ELSE IF m \in {4, 6, 9, 11} THEN 30 ELSE 31

\* datetime.strptime(s, "%Y-%m-%d"): <<y, m, d>>, or <<>> for ValueError.
\* The pattern is matched from the start, the first alternatives that let it
\* match are taken, and text left after the match is an error.
Strptime(s) ==
    IF ~(Len(s) >= 5 /\ (\A i \in 1..4 : IsDigit(s[i])) /\ s[5] = "-") THEN <<>>
    ELSE LET ms == MonthAlts(s, 6)
             ok(ml) == 6 + ml <= Len(s) /\ s[6 + ml] = "-" /\ DayAlts(s, 7 + ml) # <<>>
             good == SelectSeq(ms, ok)
         IN  IF good = <<>> THEN <<>>
             ELSE LET ml == Head(good)
                      dl == Head(DayAlts(s, 7 + ml))
                      y == NumVal(SubSeq(s, 1, 4))
                      m == NumVal(SubSeq(s, 6, 5 + ml))
                      dtxt == SubSeq(s, 7 + ml, 6 + ml + dl)
                      d == NumVal(SelectSeq(dtxt, IsDigit))
                  IN  IF 6 + ml + dl # Len(s) \/ y < 1 \/ d > DaysIn(y, m)
                        THEN <<>> ELSE <<y, m, d>>

\* latest_geojson(): the prebuilt file if it reads as JSON, else every basin
\* with no-data properties
latest_geojson ==
    IF latest.exists /\ latest.whole THEN latest.features
    ELSE [i \in 1..Len(Basins) |-> Feature(Basins[i], <<>>, <<>>)]

\* a variant of geojson_for_date that reads the date before it looks for
\* the table
geojson_for_date_parse_first(date) ==
    LET dt == Strptime(Prefix(date, 7) \o <<"-", "0", "1">>)
    IN  IF dt = <<>> THEN Reply("at", date, 400, <<>>)
        ELSE IF ~table.exists THEN Reply("at", date, 404, <<>>)
        ELSE LET target == FmtDate(dt[1], dt[2], dt[3])
                 rows == SelectSeq(table.rows, LAMBDA r : r.date = target)
             IN  Reply("at", date, 200,
                       [i \in 1..Len(Basins) |->
                           Feature(Basins[i], ById(rows, Basins[i]), target)])

\* geojson_for_date(date)
geojson_for_date(date) ==
    IF ~table.exists THEN Reply("at", date, 404, <<>>)
    ELSE LET dt == Strptime(Prefix(date, 7) \o <<"-", "0", "1">>)
         IN  IF dt = <<>> THEN Reply("at", date, 400, <<>>)
             ELSE LET target == FmtDate(dt[1], dt[2], dt[3])
                      rows == SelectSeq(table.rows, LAMBDA r : r.date = target)
                  IN  Reply("at", date, 200,
                            [i \in 1..Len(Basins) |->
                                Feature(Basins[i], ById(rows, Basins[i]), target)])

\* classes.split(",")
RECURSIVE Split(_)
Split(s) ==
    IF \A i \in 1..Len(s) : s[i] # "," THEN <<s>>
    ELSE LET k == CHOOSE i \in 1..Len(s) : s[i] = "," /\ \A j \in 1..(i - 1) : s[j] # ","
         IN  <<SubSeq(s, 1, k - 1)>> \o Split(SubSeq(s, k + 1, Len(s)))

\* c.strip()
RECURSIVE Strip(_)
Strip(s) ==
    IF s = <<>> THEN s
    ELSE IF Head(s) = " " THEN Strip(Tail(s))
    ELSE IF s[Len(s)] = " " THEN Strip(SubSeq(s, 1, Len(s) - 1))
    ELSE s

\* wanted = {c.strip() for c in classes.split(",") if c.strip()}
Wanted(classes) ==
    LET parts == Split(classes)
    IN  { Strip(parts[i]) : i \in 1..Len(parts) } \ { <<>> }

RECURSIVE InsertByAsi(_, _)
InsertByAsi(sorted, r) ==
    IF sorted = <<>> THEN <<r>>
    ELSE LET last == sorted[Len(sorted)]
         IN  IF last.asi[1] <= r.asi[1] THEN Append(sorted, r)
             ELSE Append(InsertByAsi(SubSeq(sorted, 1, Len(sorted) - 1), r), last)

RECURSIVE SortByAsi(_, _)
\* rows.sort(key=lambda r: r["asi"]): stable
SortByAsi(acc, rows) ==
    IF rows = <<>> THEN acc ELSE SortByAsi(InsertByAsi(acc, Head(rows)), Tail(rows))

\* a variant of the ranking that cuts the list before it sorts it
RankedCutFirst(features, limit, classes) ==
    LET numeric == SelectSeq(features, LAMBDA f : NotNa(f.asi))
        rows == [i \in 1..Len(numeric) |->
                    [basin_id |-> numeric[i].basin_id, asi |-> numeric[i].asi,
                     class |-> numeric[i].class, date |-> numeric[i].date]]
        wanted == Wanted(classes)
        kept == IF wanted # {} THEN SelectSeq(rows, LAMBDA r : <<r.class>> \in wanted)
                ELSE rows
    IN  SortByAsi(<<>>, Prefix(kept, Max(0, limit)))

\* the ranking of a collection: lines 137-152
Ranked(features, limit, classes) ==
    LET numeric == SelectSeq(features, LAMBDA f : NotNa(f.asi))
        rows == [i \in 1..Len(numeric) |->
                    [basin_id |-> numeric[i].basin_id, asi |-> numeric[i].asi,
                     class |-> numeric[i].class, date |-> numeric[i].date]]
        wanted == Wanted(classes)
        kept == IF wanted # {} THEN SelectSeq(rows, LAMBDA r : <<r.class>> \in wanted)
                ELSE rows
    IN  Prefix(SortByAsi(<<>>, kept), Max(0, limit))

\* asi_top10(limit, classes, date): an empty date asks for the latest
asi_top10(limit, classes, date) ==
    LET arg == [limit |-> limit, classes |-> classes, date |-> date]
        gj == geojson_for_date(date)
    IN  IF date # <<>> /\ gj.status # 200 THEN Reply("top10", arg, gj.status, <<>>)
        ELSE Reply("top10", arg, 200,
                   Ranked(IF date # <<>> THEN gj.body ELSE latest_geojson, limit, classes))

\* a variant of asi_history that answers an empty list where the basin
\* has no rows
asi_history_empty_list(basin_id) ==
    IF ~table.exists THEN Reply("history", basin_id, 404, <<>>)
    ELSE LET hits == SelectSeq(table.rows, LAMBDA r : r.basin_id = basin_id)
         IN  Reply("history", basin_id, 200,
                   [i \in 1..Len(hits) |->
                        [date |-> hits[i].date,
                         twsa_z |-> hits[i].twsa_z, sm_z |-> hits[i].sm_z,
                         rain_z |-> hits[i].rain_z, rain_def_z |-> hits[i].rain_def_z,
                         asi |-> RoundAsi(hits[i].asi), class |-> hits[i].class]])

\* asi_history(basin_id)
asi_history(basin_id) ==
    IF ~table.exists THEN Reply("history", basin_id, 404, <<>>)
    ELSE LET hits == SelectSeq(table.rows, LAMBDA r : r.basin_id = basin_id)
             out == [i \in 1..Len(hits) |->
                        [date |-> hits[i].date,
                         twsa_z |-> hits[i].twsa_z, sm_z |-> hits[i].sm_z,
                         rain_z |-> hits[i].rain_z, rain_def_z |-> hits[i].rain_def_z,
                         asi |-> RoundAsi(hits[i].asi), class |-> hits[i].class]]
         IN  IF out = <<>> THEN Reply("history", basin_id, 404, <<>>)
             ELSE Reply("history", basin_id, 200, out)


----------------------------------------------------------------------------
(* Inputs of the model *)

File(cols, rows) == [exists |-> TRUE, cols |-> cols, rows |-> rows]
Missing == [exists |-> FALSE, cols |-> {}, rows |-> <<>>]

\* the observations a source file may hold: a file is up to MaxRows of
\* them, in this order.  Basin 1 has a storage observation on two days of
\* January and one whose date cannot be parsed, and January and February
\* of soil moisture and rain; basin 2 has soil moisture of February and
\* March.
GraceObs == << Obs(1, DateCell(1, 1), 1), Obs(1, DateCell(1, 15), 3),
               Obs(1, BadDate, 3) >>
Era5Obs ==  << Obs(1, DateCell(1, 1), 1), Obs(1, DateCell(2, 1), 3),
               Obs(2, DateCell(2, 1), 1), Obs(2, DateCell(3, 1), 3) >>
ImergObs == << Obs(1, DateCell(1, 1), 3), Obs(1, DateCell(2, 1), 1) >>

Inputs ==
    { [grace |-> File({"twsa"}, g), era5 |-> File({"sm"}, e), imerg |-> File({c}, i)] :
        g \in SubSeqs(GraceObs, MaxRows), e \in SubSeqs(Era5Obs, MaxRows),
        c \in {"rain", "rain_def"}, i \in SubSeqs(ImergObs, MaxRows) \ { <<>> } }
    \cup
    { [grace |-> File({"twsa"}, g), era5 |-> File({"sm"}, e), imerg |-> File({"rain"}, <<>>)] :
        g \in SubSeqs(GraceObs, MaxRows), e \in SubSeqs(Era5Obs, MaxRows) }

\* the month parameters of the queries; <<>> asks for the latest
DateParams ==
    { <<"2", "0", "2", "1", "-", "0", "1">>,
      <<"2", "0", "2", "1", "-", "0", "2", "-", "1", "5">>,
      <<"2", "0", "2", "1", "-", "2">>,
      <<"2", "0", "2", "1", "-", "0", "2", "x", "y">>,
      <<"2", "0", "2", "1", "/", "0", "2">> }

\* the class filters of a ranking; a class name is one lexeme of the text
ClassParams ==
    { <<>>, <<"alert", ",", "watch">>, <<" ", "normal", ",", " ">> }

----------------------------------------------------------------------------
(* The system *)

Init ==
    /\ sources \in Inputs
    /\ table = [exists |-> FALSE, rows |-> <<>>]
    /\ latest = [exists |-> FALSE, whole |-> FALSE, features |-> <<>>]
    /\ pc = "idle"
    /\ df_out = <<>>
    /\ resp = NoResp

Idle == pc \in {"idle", "done", "aborted"}

\* main(), lines 41-72: no usable source ends the run
Abort ==
    /\ Idle
    /\ Frames(sources) = <<>>
    /\ pc' = "aborted"
    /\ resp' = NoResp
    /\ UNCHANGED <<sources, table, latest, df_out>>

\* main(), lines 41-118: the frame is computed and to_csv opens the table
\* file, which truncates it
Start ==
    /\ Idle
    /\ Frames(sources) # <<>>
    /\ df_out' = DfOut(sources)
    /\ table' = [exists |-> TRUE, rows |-> <<>>]
    /\ pc' = "writing_table"
    /\ resp' = NoResp
    /\ UNCHANGED <<sources, latest>>

\* to_csv, line 118: the rows reach the file one after the other
WriteRow ==
    /\ pc = "writing_table"
    /\ LET n == Len(table.rows) + 1
       IN  /\ table' = [table EXCEPT !.rows = Append(@, df_out[n])]
           /\ pc' = IF n = Len(df_out) THEN "table_written" ELSE "writing_table"
    /\ resp' = NoResp
    /\ UNCHANGED <<sources, latest, df_out>>

\* write_text, line 147: the file is opened, which truncates it
OpenLatest ==
    /\ pc = "table_written"
    /\ latest' = [exists |-> TRUE, whole |-> FALSE, features |-> <<>>]
    /\ pc' = "writing_latest"
    /\ resp' = NoResp
    /\ UNCHANGED <<sources, table, df_out>>

\* write_text, line 147: the text is written and the file closed
CloseLatest ==
    /\ pc = "writing_latest"
    /\ latest' = [exists |-> TRUE, whole |-> TRUE, features |-> LatestGj(df_out)]
    /\ pc' = "done"
    /\ resp' = NoResp
    /\ UNCHANGED <<sources, table, df_out>>

\* the operator removes the interim files between two runs
ClearSources ==
    /\ Idle
    /\ \E n \in SourceNames : sources[n].exists
    /\ sources' = [n \in SourceNames |-> Missing]
    /\ resp' = NoResp
    /\ UNCHANGED <<table, latest, pc, df_out>>

\* GET /asi/latest
AsiLatest ==
    /\ resp = NoResp
    /\ resp' = Reply("latest", <<>>, 200, latest_geojson)
    /\ UNCHANGED <<sources, table, latest, pc, df_out>>

\* GET /asi/at?date=
AsiAt ==
    /\ resp = NoResp
    /\ \E date \in DateParams : resp' = geojson_for_date(date)
    /\ UNCHANGED <<sources, table, latest, pc, df_out>>

\* GET /asi/top10?limit=&classes=&date=
AsiTop10 ==
    /\ resp = NoResp
    /\ \E limit \in -1..MaxLimit, classes \in ClassParams,
          date \in { <<>>, <<"2", "0", "2", "1", "-", "0", "2">> } :
            resp' = asi_top10(limit, classes, date)
    /\ UNCHANGED <<sources, table, latest, pc, df_out>>

\* GET /asi/history?basin_id=
AsiHistory ==
    /\ resp = NoResp
    /\ \E b \in 1..3 : resp' = asi_history(b)
    /\ UNCHANGED <<sources, table, latest, pc, df_out>>

\* the response leaves: requests are served one at a time
Deliver ==
    /\ resp # NoResp
    /\ resp' = NoResp
    /\ UNCHANGED <<sources, table, latest, pc, df_out>>

Next ==
    \/ Abort \/ Start \/ WriteRow \/ OpenLatest \/ CloseLatest \/ ClearSources
    \/ AsiLatest \/ AsiAt \/ AsiTop10 \/ AsiHistory \/ Deliver

Spec == Init /\ [][Next]_vars


----------------------------------------------------------------------------
(* Notions the properties share *)

Rows == { table.rows[i] : i \in 1..Len(table.rows) }

\* no run is in progress and the last complete run wrote both artifacts
Settled == pc \in {"done", "aborted"} /\ table.exists /\ latest.exists /\ latest.whole

\* a fraction num/den equals the weighted mean of the present scores
\* among a (weight wa), b (weight wb) and c (weight wc)
IsWeightedMean(asi, a, wa, b, wb, c, wc) ==
    LET ws == (IF NotNa(a) THEN wa ELSE 0) + (IF NotNa(b) THEN wb ELSE 0)
              + (IF NotNa(c) THEN wc ELSE 0)
        zs == (IF NotNa(a) THEN wa * a[1] ELSE 0) + (IF NotNa(b) THEN wb * b[1] ELSE 0)
              + (IF NotNa(c) THEN wc * c[1] ELSE 0)
    IN  /\ IsNa(asi) <=> (IsNa(a) /\ IsNa(b) /\ IsNa(c))
        /\ NotNa(asi) => asi[1] * ws = zs * asi[2]

----------------------------------------------------------------------------
(* C1 *)

\* C1, as stated: every row's asi is the weighted mean of its available
\* scores among twsa_z (0.4), sm_z (0.4) and the rain-deficit score
\* rain_def_z (0.2), and is missing exactly when none is available.
C1_DeficitWeighted ==
    \A r \in Rows : IsWeightedMean(r.asi, r.twsa_z, 4, r.sm_z, 4, r.rain_def_z, 2)

\* C1, amended: every row's asi is the weighted mean of its available
\* scores among twsa_z (0.4), sm_z (0.4) and the rain-surplus score rain_z
\* (0.2), the negation of rain_def_z, and is missing exactly when none is
\* available.
C1_SurplusWeighted ==
    \A r \in Rows : IsWeightedMean(r.asi, r.twsa_z, 4, r.sm_z, 4, r.rain_z, 2)

\* a written row with the three scores, the rain score unlike the storage one
C1_Witness ==
    \E r \in Rows : /\ NotNa(r.twsa_z) /\ NotNa(r.sm_z) /\ NotNa(r.rain_z)
                    /\ r.rain_z # r.twsa_z /\ r.rain_z = Neg(r.rain_def_z)
                    /\ r.asi[1] * 10 = -6 * Scale * r.asi[2]

----------------------------------------------------------------------------
(* C2 *)

DatedRows == { r \in Rows : r.date # <<>> }
CoveredMonths == { r.date : r \in { x \in DatedRows : NotNa(x.asi) } }
AllMonths == { r.date : r \in DatedRows }
LatestOf(S) == CHOOSE d \in S : \A e \in S : ~TsLess(ToDatetime(d), ToDatetime(e))

\* the month the default snapshot is to show; <<>> when the table has none
CoverageMonth ==
    IF CoveredMonths # {} THEN LatestOf(CoveredMonths)
    ELSE IF AllMonths # {} THEN LatestOf(AllMonths) ELSE <<>>

\* the features show month d of the table: each basin the values of one of
\* its rows of that month, or the no-data placeholder when it has none
ShowsMonth(features, d) ==
    /\ Len(features) = Len(Basins)
    /\ \A i \in 1..Len(features) :
        LET f == features[i]
            mine == { r \in Rows : r.basin_id = Basins[i] /\ r.date = d /\ d # <<>> }
        IN  /\ f.basin_id = Basins[i]
            /\ f.date = d
            /\ IF mine = {} THEN f.class = "no-data" /\ IsNa(f.asi)
               ELSE \E r \in mine : /\ f.class = r.class
                                    /\ IsNa(f.asi) <=> IsNa(r.asi)
                                    /\ f.twsa_z = r.twsa_z /\ f.sm_z = r.sm_z
                                    /\ f.rain_z = r.rain_z

\* C2: after a pipeline run the default snapshot shows the latest month of
\* the table in which some basin has a composite score, whatever later months
\* without any score the table holds, and the latest month of the table when
\* no month has a score.
C2_DefaultSnapshotMonth ==
    (Settled /\ resp.op = "latest") => ShowsMonth(resp.body, CoverageMonth)

\* the default snapshot served while the table holds a later month without
\* any score
C2_Witness ==
    /\ Settled /\ resp.op = "latest"
    /\ CoveredMonths # {}
    /\ \E d \in AllMonths : TsLess(ToDatetime(CoverageMonth), ToDatetime(d))
    /\ \E i \in 1..Len(resp.body) : NotNa(resp.body[i].asi)

----------------------------------------------------------------------------
(* C3 *)

\* C3, as stated: a reader never sees an artifact in part.  A history read
\* while the table file exists returns every row the run computed for the
\* basin, and a default snapshot read while the latest file exists returns
\* the collection the run computed.
C3_AtomicReplace ==
    /\ (resp.op = "history" /\ table.exists) =>
          Len(resp.body) = Cardinality({ i \in 1..Len(df_out) : df_out[i].basin_id = resp.arg })
    /\ (resp.op = "latest" /\ latest.exists) => resp.body = LatestGj(df_out)

----------------------------------------------------------------------------
(* C4 *)

\* C4, as stated: the table holds one record per (basin_id, month).
C4_OneRowPerBasinMonth ==
    \A i, j \in 1..Len(table.rows) :
        (i < j /\ table.rows[i].date # <<>>)
            => ~(/\ table.rows[i].basin_id = table.rows[j].basin_id
                 /\ table.rows[i].date = table.rows[j].date)

----------------------------------------------------------------------------
(* C5 *)

\* YYYY-MM or YYYY-MM-DD, the month 01..12 and the day 01..31
IsMonthText(s) ==
    /\ Len(s) \in {7, 10}
    /\ \A i \in {1, 2, 3, 4, 6, 7} : IsDigit(s[i])
    /\ s[5] = "-"
    /\ NumVal(SubSeq(s, 6, 7)) \in 1..12
    /\ Len(s) = 10 => /\ s[8] = "-" /\ IsDigit(s[9]) /\ IsDigit(s[10])
                      /\ NumVal(SubSeq(s, 9, 10)) \in 1..31

FirstDay(s) == SubSeq(s, 1, 7) \o <<"-", "0", "1">>

\* C5, as stated: with the table in place, a query for a month answers for
\* the first day of that month when the parameter is YYYY-MM or YYYY-MM-DD,
\* and rejects as a client error a parameter of any other form.
C5_OnlyMonthFormats ==
    /\ (resp.op = "at" /\ table.exists) =>
            IF IsMonthText(resp.arg)
              THEN resp.status = 200 /\ \A i \in 1..Len(resp.body) :
                                            resp.body[i].date = FirstDay(resp.arg)
              ELSE resp.status = 400
    /\ (resp.op = "top10" /\ table.exists /\ resp.arg.date # <<>>) =>
            (resp.status = 200 <=> IsMonthText(resp.arg.date))

----------------------------------------------------------------------------
(* C6 *)

Parsable(f) == [f EXCEPT !.rows = SelectSeq(f.rows, LAMBDA r : r.date.ok)]
ParsableSources == [n \in SourceNames |-> Parsable(sources[n])]

\* C6, as stated: no row of the table has a missing date, and the table is
\* the one the run would write from the rows whose date can be parsed.
C6_UnparsableRowsExcluded ==
    /\ \A r \in Rows : r.date # <<>>
    /\ (pc \in {"table_written", "writing_latest", "done"} /\ Frames(sources) # <<>>)
          => /\ Frames(ParsableSources) # <<>>
             /\ table.rows = DfOut(ParsableSources)

----------------------------------------------------------------------------
(* C7 *)

\* C7: while the table does not exist, a snapshot for a date is answered
\* not-found, whatever the date, and the default snapshot is answered with
\* every basin, each of class no-data with every score missing.
C7_NoTable ==
    ~table.exists =>
        /\ resp.op = "at" => resp.status = 404
        /\ resp.op = "latest" =>
              /\ resp.status = 200
              /\ Len(resp.body) = Len(Basins)
              /\ \A i \in 1..Len(resp.body) :
                    /\ resp.body[i].basin_id = Basins[i]
                    /\ resp.body[i].class = "no-data"
                    /\ IsNa(resp.body[i].asi) /\ IsNa(resp.body[i].twsa_z)
                    /\ IsNa(resp.body[i].sm_z) /\ IsNa(resp.body[i].rain_z)
                    /\ IsNa(resp.body[i].rain_def_z)

\* a snapshot asked, with a date no month parameter may have, after a run
\* that found no usable source and before any table was written
C7_Witness ==
    /\ ~table.exists /\ pc = "aborted"
    /\ resp.op = "at" /\ ~IsMonthText(resp.arg) /\ resp.status = 404

----------------------------------------------------------------------------
(* C8 *)

\* the positions of the rows of basin b in the table, and the k-th of them
RowsOf(b) == { i \in 1..Len(table.rows) : table.rows[i].basin_id = b }
NthOf(S, k) == CHOOSE i \in S : Cardinality({ j \in S : j < i }) = k - 1

\* C8: the history of a basin is not-found exactly when the table has no
\* row of the basin; otherwise it has one entry per row of the basin, with
\* the row's date, scores and class, the months ascending (a row without a
\* date after the dated ones), whether or not any composite score is there.
C8_HistoryIsTheBasinsRows ==
    (resp.op = "history" /\ table.exists) =>
        LET idx == RowsOf(resp.arg)
            h == resp.body
        IN  /\ resp.status = (IF idx = {} THEN 404 ELSE 200)
            /\ Len(h) = Cardinality(idx)
            /\ \A k \in 1..Len(h) :
                  LET r == table.rows[NthOf(idx, k)]
                  IN  /\ h[k].date = r.date /\ h[k].class = r.class
                      /\ h[k].twsa_z = r.twsa_z /\ h[k].sm_z = r.sm_z
                      /\ h[k].rain_z = r.rain_z /\ h[k].rain_def_z = r.rain_def_z
                      /\ IsNa(h[k].asi) <=> IsNa(r.asi)
                      /\ NotNa(r.asi) => Abs(h[k].asi[1] * r.asi[2] - r.asi[1]) * 2 <= r.asi[2]
            /\ \A k, l \in 1..Len(h) :
                  (k < l /\ h[l].date # <<>>) =>
                      /\ h[k].date # <<>>
                      /\ ~TsLess(ToDatetime(h[l].date), ToDatetime(h[k].date))

\* the history of a basin with rows of two months and no composite score
C8_Witness ==
    /\ resp.op = "history" /\ resp.status = 200 /\ pc = "done"
    /\ Len(resp.body) >= 2
    /\ \A k \in 1..Len(resp.body) : IsNa(resp.body[k].asi)
    /\ resp.body[1].date # <<>> /\ resp.body[2].date # <<>>
    /\ resp.body[1].date # resp.body[2].date

----------------------------------------------------------------------------
(* C9 *)

\* the class names a filter text gives
Labels(classes) == { classes[i] : i \in 1..Len(classes) } \ { ",", " " }

\* the collection a ranking is drawn from
SnapshotOf(date) == IF date = <<>> THEN latest_geojson ELSE geojson_for_date(date).body

\* C9: a ranking holds features of the snapshot that have a composite score
\* and, under a filter that names classes, one of these classes; it is in
\* order of non-decreasing score, holds min(limit, matches) of the matches,
\* each once, and none it leaves out has a lower score than one it holds.
\* A limit of 0 gives the empty list.
C9_Ranking ==
    (resp.op = "top10" /\ resp.status = 200 /\ resp.arg.limit >= 0) =>
        LET snap == SnapshotOf(resp.arg.date)
            labels == Labels(resp.arg.classes)
            matches == { i \in 1..Len(snap) :
                            /\ NotNa(snap[i].asi)
                            /\ labels # {} => snap[i].class \in labels }
            out == resp.body
            held == { i \in matches : \E k \in 1..Len(out) :
                                          out[k].basin_id = snap[i].basin_id }
        IN  /\ Len(out) = Min(resp.arg.limit, Cardinality(matches))
            /\ \A k \in 1..Len(out) :
                  \E i \in matches : /\ out[k].basin_id = snap[i].basin_id
                                     /\ out[k].asi = snap[i].asi
                                     /\ out[k].class = snap[i].class
            /\ \A k, l \in 1..Len(out) : k < l =>
                  /\ out[k].asi[1] <= out[l].asi[1]
                  /\ out[k].basin_id # out[l].basin_id
            /\ \A i \in matches \ held : \A k \in 1..Len(out) :
                  out[k].asi[1] <= snap[i].asi[1]
            /\ resp.arg.limit = 0 => out = <<>>

\* a ranking of two basins that the snapshot lists in the other order
C9_Witness ==
    /\ resp.op = "top10" /\ resp.status = 200
    /\ Len(resp.body) = 2
    /\ resp.body[1].asi[1] < resp.body[2].asi[1]
    /\ resp.body[1].basin_id > resp.body[2].basin_id

----------------------------------------------------------------------------
(* C10 *)

\* composite scores about the thresholds as fractions of thousandths, in
\* ascending order: -1.5, -1.001, -1.0, -0.999, -0.75, -0.501, -0.5, -0.499,
\* 0.0, 1.0
AsiSamples ==
    << <<-3000, 2>>, <<-4004, 4>>, <<-6000, 6>>, <<-7992, 8>>, <<-7500, 10>>,
       <<-1002, 2>>, <<-2000, 4>>, <<-2994, 6>>, <<0, 8>>, <<10000, 10>> >>

\* the class the thresholds give a score of num/den thousandths
ClassOf(asi) ==
    IF IsNa(asi) THEN "no-data"
    ELSE IF asi[1] <= -1000 * asi[2] THEN "alert"
    ELSE IF 2 * asi[1] <= -1000 * asi[2] THEN "watch"
    ELSE "normal"

Severity(class) == IF class = "alert" THEN 2 ELSE IF class = "watch" THEN 1 ELSE 0

\* the thresholds on the samples: each has the class of its interval, the
\* thresholds themselves are alert and watch, and the severity does not rise
\* along the ascending samples
ThresholdsOnSamples ==
    /\ Classify(NaN) = "no-data"
    /\ \A k \in 1..Len(AsiSamples) : Classify(AsiSamples[k]) = ClassOf(AsiSamples[k])
    /\ Classify(AsiSamples[3]) = "alert" /\ Classify(AsiSamples[4]) = "watch"
    /\ Classify(AsiSamples[7]) = "watch" /\ Classify(AsiSamples[8]) = "normal"
    /\ \A k \in 1..(Len(AsiSamples) - 1) :
          Severity(Classify(AsiSamples[k])) >= Severity(Classify(AsiSamples[k + 1]))

\* C10: the class is a function of the score alone: missing gives no-data,
\* a score <= -1.0 alert, a score in (-1.0, -0.5] watch, a score above -0.5
\* normal; -1.0 is alert and -0.5 is watch; a higher score never has a
\* higher severity; and every row of the table has the class of its asi.
C10_Classification ==
    /\ ThresholdsOnSamples
    /\ \A r \in Rows : r.class = ClassOf(r.asi)
    /\ \A r, q \in Rows :
          (NotNa(r.asi) /\ NotNa(q.asi) /\ r.asi[1] * q.asi[2] <= q.asi[1] * r.asi[2])
              => Severity(r.class) >= Severity(q.class)

\* a complete table with a row whose score is the alert threshold itself and
\* rows of the classes normal and no-data
C10_Witness ==
    /\ pc = "done"
    /\ \E r \in Rows : NotNa(r.asi) /\ r.asi[1] = -1000 * r.asi[2] /\ r.class = "alert"
    /\ \E r \in Rows : r.class = "normal"
    /\ \E r \in Rows : r.class = "no-data"

============================================================================
